---- MODULE Spec2Model ----
(***************************************************************************)
(* whale: concurrent collection and normalisation of container metrics.    *)
(*                                                                         *)
(* The module models                                                       *)
(*   - internal/docker/stats.go: CollectSnapshots (lister call, result     *)
(*     slots, admission gate `sem`, WaitGroup `wg`, one goroutine per      *)
(*     running container), populateStats and the normalisers               *)
(*     computeCPUPercent, computeMemory, computeNetwork, computeBlockIO;   *)
(*   - cmd/whale/main.go: the one-shot path of main and the watch loops    *)
(*     watchContainers / watchNetworks (ticker, parent context).           *)
(*                                                                         *)
(* float64 values are modelled as exact fractions <<num, den>> in lowest   *)
(* terms; uint64 counters as naturals modulo 2^CounterBits.                *)
(***************************************************************************)
EXTENDS Integers, Sequences, FiniteSets, TLC

VARIABLES
    mode,        \* "oneshot" | "watch" | "netwatch": the command line of main
    pc,          \* position of the main goroutine
    parentDone,  \* main's ctx is done (15 s timeout, or SIGINT/SIGTERM in watch mode)
    tickPending, \* a tick is buffered in ticker.C (capacity 1)
    cycles,      \* collection cycles initiated so far
    renders,     \* tables written to stdout so far
    exit,        \* "running" | "ok" | "fatal": how the program ended
    containers,  \* ContainerList's answer in the current cycle
    snapshots,   \* the slice `snapshots` of the current cycle
    next,        \* position in runningIdx of the next container to submit
    sem,         \* number of tokens held in the channel `sem`
    wg,          \* the WaitGroup counter
    wpc,         \* wpc[i]: position of the goroutine of container i
    fetchErr,    \* fetchErr[i]: "pending" | "nil" | "err", populateStats' return value
    listErr,     \* "unset" | "nil" | "err": the err of cli.ContainerList in this cycle
    result,      \* what CollectSnapshots returned to its caller
    calls,       \* calls[i]: ContainerStats requests made for container i in this cycle
    prevFailed,  \* the fetch of the first listed container failed in the previous cycle
    sj,          \* normaliser harness: the decoded container.Stats
    norm         \* normaliser harness: the values computed from sj

vars == <<mode, pc, parentDone, tickPending, cycles, renders, exit, containers,
          snapshots, next, sem, wg, wpc, fetchErr, listErr, result, calls, prevFailed,
          sj, norm>>

-----------------------------------------------------------------------------
\* Bounds of the model.

\* Longest container list the lister returns in Spec.
MaxContainers == 3
\* Collection cycles a watch loop may initiate.
MaxCycles == 2
\* Width of the modelled unsigned counters (the program's are 64 bits wide).
CounterBits == 12
\* The wide list of SpecGate holds concurrency + GateExtra running containers.
GateExtra == 1
\* In SpecGate a fetch returns at most GateWindow submissions out of turn.
GateWindow == 9
\* Longest list of blkio entries the normaliser harness draws.
MaxEntries == 3
\* In SpecGateFair a fetch returns at most FairWindow submissions out of turn.
FairWindow == 5
\* Largest small counter value the normaliser harness draws (besides Wrap - 1).
MaxCounter == 2

Wrap == 2 ^ CounterBits

-----------------------------------------------------------------------------
\* Arithmetic helpers.

Min(a, b) == IF a < b THEN a ELSE b

RECURSIVE GCD(_, _)
GCD(a, b) == IF b = 0 THEN a ELSE GCD(b, a % b)

\* A float64 quotient n/d (d > 0) as a fraction in lowest terms.
Frac(n, d) == LET g == GCD(n, d) IN <<n \div g, d \div g>>

Zero == <<0, 1>>

\* uint64 subtraction and addition wrap around.
USub(a, b) == (a - b + Wrap) % Wrap
UAdd(a, b) == (a + b) % Wrap

-----------------------------------------------------------------------------
\* Strings the code inspects character by character are sequences of
\* one-character strings; the others are TLA+ strings.

Str_web   == <<"/", "w", "e", "b">>
Str_db    == <<"d", "b">>
Str_alias == <<"/", "a">>

\* strings.TrimPrefix(n, "/")
TrimSlash(n) == IF Len(n) >= 1 /\ n[1] = "/" THEN Tail(n) ELSE n

deriveName(names) == IF Len(names) = 0 THEN << >> ELSE TrimSlash(names[1])

deriveStatus(state, status) ==
    IF status # "" THEN status
    ELSE IF state # "" THEN state
    ELSE ""

\* unicode.ToLower on the letters that occur in the operation labels.
LowerChar(c) ==
    CASE c = "R" -> "r" [] c = "E" -> "e" [] c = "A" -> "a" [] c = "D" -> "d"
      [] c = "W" -> "w" [] c = "I" -> "i" [] c = "T" -> "t" [] c = "S" -> "s"
      [] c = "Y" -> "y" [] c = "N" -> "n" [] c = "C" -> "c"
      [] OTHER -> c

\* strings.ToLower
ToLower(s) == [k \in 1..Len(s) |-> LowerChar(s[k])]

Op_read  == <<"r", "e", "a", "d">>
Op_write == <<"w", "r", "i", "t", "e">>

-----------------------------------------------------------------------------
\* The normalisers of stats.go. A container.Stats value is a record
\*   [CPUTotal, PreCPUTotal, SystemUsage, PreSystemUsage : uint64,
\*    OnlineCPUs : uint32, PercpuLen : len(PercpuUsage),
\*    MemUsage, MemLimit : uint64, Networks : Seq([RxBytes, TxBytes]),
\*    Blkio : Seq([Op, Value]), PidsCurrent : uint64].

\* Variant: the length of the per-core list is preferred to the explicit count.
computeCPUPercentPercpuFirst(s) ==
    LET cpuDelta    == USub(s.CPUTotal, s.PreCPUTotal)
        systemDelta == USub(s.SystemUsage, s.PreSystemUsage)
        numCPUs     == IF s.PercpuLen > 0 THEN s.PercpuLen
                       ELSE IF s.OnlineCPUs > 0 THEN s.OnlineCPUs
                       ELSE 1
    IN  IF cpuDelta <= 0 \/ systemDelta <= 0 THEN Zero
        ELSE Frac(cpuDelta * numCPUs * 100, systemDelta)

computeCPUPercent(s) ==
    LET cpuDelta    == USub(s.CPUTotal, s.PreCPUTotal)
        systemDelta == USub(s.SystemUsage, s.PreSystemUsage)
        numCPUs     == IF s.OnlineCPUs > 0 THEN s.OnlineCPUs
                       ELSE IF s.PercpuLen > 0 THEN s.PercpuLen
                       ELSE 1
    IN  IF cpuDelta <= 0 \/ systemDelta <= 0 THEN Zero
        ELSE Frac(cpuDelta * numCPUs * 100, systemDelta)

\* Variant: the usage check alone, so a zero limit reaches the division.
computeMemoryNoLimitCheck(s) ==
    LET usage == s.MemUsage
        limit == s.MemLimit
    IN  IF usage = 0
        THEN [usage |-> usage, limit |-> limit, percent |-> Zero]
        ELSE [usage |-> usage, limit |-> limit, percent |-> Frac(usage * 100, limit)]

computeMemory(s) ==
    LET usage == s.MemUsage
        limit == s.MemLimit
    IN  IF limit = 0 \/ usage = 0
        THEN [usage |-> usage, limit |-> limit, percent |-> Zero]
        ELSE [usage |-> usage, limit |-> limit, percent |-> Frac(usage * 100, limit)]

RECURSIVE SumRx(_), SumTx(_)
SumRx(nws) == IF nws = << >> THEN 0 ELSE UAdd(Head(nws).RxBytes, SumRx(Tail(nws)))
SumTx(nws) == IF nws = << >> THEN 0 ELSE UAdd(Head(nws).TxBytes, SumTx(Tail(nws)))

computeNetwork(s) == [rx |-> SumRx(s.Networks), tx |-> SumTx(s.Networks)]

\* Variant: the labels are compared as they come, without strings.ToLower.
RECURSIVE SumOpExact(_, _)
SumOpExact(es, label) ==
    IF es = << >> THEN 0
    ELSE LET rest == SumOpExact(Tail(es), label)
         IN  IF Head(es).Op = label THEN UAdd(Head(es).Value, rest) ELSE rest

RECURSIVE SumOp(_, _)
SumOp(es, label) ==
    IF es = << >> THEN 0
    ELSE LET rest == SumOp(Tail(es), label)
         IN  IF ToLower(Head(es).Op) = label THEN UAdd(Head(es).Value, rest) ELSE rest

computeBlockIO(s) == [read  |-> SumOp(s.Blkio, Op_read),
                      write |-> SumOp(s.Blkio, Op_write)]

\* The nine assignments at the end of populateStats.
WriteMetrics(snap, s) ==
    LET mem == computeMemory(s)
        net == computeNetwork(s)
        blk == computeBlockIO(s)
    IN  [snap EXCEPT !.CPUPercent = computeCPUPercent(s),
                     !.MemUsage   = mem.usage,
                     !.MemLimit   = mem.limit,
                     !.MemPercent = mem.percent,
                     !.NetRx      = net.rx,
                     !.NetTx      = net.tx,
                     !.BlockRead  = blk.read,
                     !.BlockWrite = blk.write,
                     !.PIDs       = IF s.PidsCurrent # 0 THEN s.PidsCurrent ELSE 0]

\* Variant: the fields are assigned while decoding, so a body that breaks off
\* leaves the process count behind.
populateStatsPartial(snap, outcome, s) ==
    IF outcome = "ok" THEN WriteMetrics(snap, s)
    ELSE IF outcome = "decode" THEN [snap EXCEPT !.PIDs = 1]
    ELSE snap

\* populateStats: snap is written only when the request and the decoding succeeded.
populateStats(snap, outcome, s) ==
    IF outcome = "ok" THEN WriteMetrics(snap, s) ELSE snap

\* The ContainerSnapshot literal of CollectSnapshots: the other fields are zero.
NewSnapshot(c) ==
    [ID |-> c.ID, Name |-> deriveName(c.Names), Status |-> deriveStatus(c.State, c.Status),
     CPUPercent |-> Zero, MemUsage |-> 0, MemLimit |-> 0, MemPercent |-> Zero,
     NetRx |-> 0, NetTx |-> 0, BlockRead |-> 0, BlockWrite |-> 0, PIDs |-> 0]

\* All numeric fields of a snapshot are zero.
MetricsZero(snap) ==
    /\ snap.CPUPercent = Zero /\ snap.MemPercent = Zero
    /\ snap.MemUsage = 0 /\ snap.MemLimit = 0
    /\ snap.NetRx = 0 /\ snap.NetTx = 0
    /\ snap.BlockRead = 0 /\ snap.BlockWrite = 0
    /\ snap.PIDs = 0

-----------------------------------------------------------------------------
\* Inputs: what the lister and the stats source may answer.

NoStats  == [Absent |-> "stats"]
NoNorm   == [Absent |-> "norm"]
NoResult == [Absent |-> "result"]

\* container.Summary values, without the ID (the daemon assigns distinct IDs).
UpContainer     == [Names |-> <<Str_web>>, State |-> "running", Status |-> "Up 5 minutes"]
ExitedContainer == [Names |-> <<Str_db, Str_alias>>, State |-> "exited",
                    Status |-> "Exited (0) 2 hours ago"]
PausedContainer == [Names |-> << >>, State |-> "paused", Status |-> ""]

Templates == {UpContainer, ExitedContainer, PausedContainer}

ContainerAt(i, t) == [ID |-> i, Names |-> t.Names, State |-> t.State, Status |-> t.Status]

\* Every list of at most n containers; the i-th container has ID i.
ListsUpTo(n) ==
    UNION { { [i \in 1..len |-> ContainerAt(i, f[i])] : f \in [1..len -> Templates] }
            : len \in 0..n }

Lists == ListsUpTo(MaxContainers)

ZeroStats ==
    [CPUTotal |-> 0, PreCPUTotal |-> 0, SystemUsage |-> 0, PreSystemUsage |-> 0,
     OnlineCPUs |-> 0, PercpuLen |-> 0, MemUsage |-> 0, MemLimit |-> 0,
     Networks |-> << >>, Blkio |-> << >>, PidsCurrent |-> 0]

\* A busy container: cpuDelta 50, systemDelta 500, 4 CPUs, 100 of 2048 units of memory.
BusyStats ==
    [CPUTotal |-> 60, PreCPUTotal |-> 10, SystemUsage |-> 700, PreSystemUsage |-> 200,
     OnlineCPUs |-> 4, PercpuLen |-> 2, MemUsage |-> 100, MemLimit |-> 2048,
     Networks |-> << [RxBytes |-> 3, TxBytes |-> 1], [RxBytes |-> 4, TxBytes |-> 2] >>,
     Blkio |-> << [Op |-> <<"R", "e", "a", "d">>, Value |-> 1024],
                  [Op |-> <<"w", "r", "i", "t", "e">>, Value |-> 2048],
                  [Op |-> <<"A", "s", "y", "n", "c">>, Value |-> 99] >>,
     PidsCurrent |-> 12]

\* An idle container: no counter moved, no limit set.
IdleStats == [ZeroStats EXCEPT !.CPUTotal = 10, !.PreCPUTotal = 10, !.MemUsage = 5]

Samples == {BusyStats, IdleStats}

\* The ways a stats fetch fails: cli.ContainerStats returns an error, the body
\* does not decode, or the 1.5 s deadline of cctx expires first.
FailureKinds == {"request", "decode", "deadline"}

-----------------------------------------------------------------------------
\* CollectSnapshots.

\* Variant: every listed container is submitted, whatever its state.
RunningFromAll(cs, i) == [k \in 1..(Len(cs) - i + 1) |-> k + i - 1]

\* for i, c := range containers { ... if c.State == "running" { append } }
RECURSIVE RunningFrom(_, _)
RunningFrom(cs, i) ==
    IF i > Len(cs) THEN << >>
    ELSE IF cs[i].State = "running" THEN <<i>> \o RunningFrom(cs, i + 1)
    ELSE RunningFrom(cs, i + 1)

runningIdx == RunningFrom(containers, 1)

MaxConcurrency == 16

\* Variant: one token per running container, without the ceiling.
ConcurrencyUnbounded(r) == r

\* concurrency := 16; if len(runningIdx) < concurrency { concurrency = len(runningIdx) }
Concurrency(r) == IF r < MaxConcurrency THEN r ELSE MaxConcurrency

\* The context CollectSnapshots is given: main's ctx in one-shot mode,
\* context.Background() in the watch loops.
CtxDone == mode = "oneshot" /\ parentDone

\* Number of stats fetches started and not yet finished.
InFlight == Cardinality({i \in DOMAIN wpc : wpc[i] = "fetch"})

\* Variant: a failed fetch replaces the slot by ContainerSnapshot{Status: "ERROR"}.
WorkerBodyResetOnError(snap, outcome, s) ==
    IF outcome = "ok" THEN populateStats(snap, outcome, s)
    ELSE [ID |-> 0, Name |-> << >>, Status |-> "ERROR",
          CPUPercent |-> Zero, MemUsage |-> 0, MemLimit |-> 0, MemPercent |-> Zero,
          NetRx |-> 0, NetTx |-> 0, BlockRead |-> 0, BlockWrite |-> 0, PIDs |-> 0]

\* The body of the goroutine after populateStats returned.
WorkerBody(snap, outcome, s) ==
    IF outcome = "ok" THEN populateStats(snap, outcome, s)
    ELSE [populateStats(snap, outcome, s) EXCEPT !.Status = "ERROR"]

\* State of a cycle before CollectSnapshots has listed anything.
CycleCleared ==
    /\ containers = << >> /\ snapshots = << >> /\ next = 1 /\ sem = 0 /\ wg = 0
    /\ wpc = << >> /\ fetchErr = << >> /\ listErr = "unset" /\ result = NoResult
    /\ calls = << >>

ClearCycle ==
    /\ containers' = << >> /\ snapshots' = << >> /\ next' = 1 /\ sem' = 0 /\ wg' = 0
    /\ wpc' = << >> /\ fetchErr' = << >> /\ listErr' = "unset" /\ result' = NoResult
    /\ calls' = << >>

\* Variant: the lister's error is swallowed and an empty result returned.
ListFailSwallowed ==
    /\ mode \in {"oneshot", "watch"} /\ pc = "list"
    /\ listErr' = "err"
    /\ result' = [snaps |-> << >>, err |-> FALSE, isNil |-> FALSE]
    /\ pc' = "returned"
    /\ UNCHANGED <<mode, parentDone, tickPending, cycles, renders, exit, containers,
                   snapshots, next, sem, wg, wpc, fetchErr, sj, norm,
                   calls, prevFailed>>

\* cli.ContainerList fails (always so when ctx is already done): return nil, err.
ListFail ==
    /\ mode \in {"oneshot", "watch"} /\ pc = "list"
    /\ result' = [snaps |-> << >>, err |-> TRUE, isNil |-> TRUE]
    /\ listErr' = "err"
    /\ pc' = "returned"
    /\ UNCHANGED <<mode, parentDone, tickPending, cycles, renders, exit, containers,
                   snapshots, next, sem, wg, wpc, fetchErr, sj, norm,
                   calls, prevFailed>>

\* cli.ContainerList answers cs: the slots are filled with identity and status,
\* and the call returns at once when no container is running.
ListOk(cs) ==
    /\ mode \in {"oneshot", "watch"} /\ pc = "list" /\ ~CtxDone
    /\ listErr' = "nil"
    /\ containers' = cs
    /\ snapshots' = [i \in 1..Len(cs) |-> NewSnapshot(cs[i])]
    /\ next' = 1 /\ sem' = 0 /\ wg' = 0
    /\ wpc' = [i \in 1..Len(cs) |-> "idle"]
    /\ calls' = [i \in 1..Len(cs) |-> 0]
    /\ fetchErr' = [i \in 1..Len(cs) |-> "pending"]
    /\ IF Len(RunningFrom(cs, 1)) = 0
       THEN /\ result' = [snaps |-> snapshots', err |-> FALSE, isNil |-> FALSE]
            /\ pc' = "returned"
       ELSE /\ result' = NoResult
            /\ pc' = "submit"
    /\ UNCHANGED <<mode, parentDone, tickPending, cycles, renders, exit, sj, norm,
                   prevFailed>>

\* Variant: the goroutines share one index variable, the first running container's.
SubmitSharedIndex ==
    /\ pc = "submit"
    /\ sem < Concurrency(Len(runningIdx))
    /\ LET i == runningIdx[1]
       IN  wpc' = [wpc EXCEPT ![i] = "fetch"]
    /\ sem' = sem + 1
    /\ wg' = wg + 1
    /\ next' = next + 1
    /\ pc' = IF next = Len(runningIdx) THEN "wait" ELSE "submit"
    /\ UNCHANGED <<listErr, mode, parentDone, tickPending, cycles, renders, exit, containers,
                   snapshots, fetchErr, result, sj, norm,
                   calls, prevFailed>>

\* One turn of the submission loop: sem <- struct{}{}; wg.Add(1); go func() {...}()
Submit ==
    /\ pc = "submit"
    /\ sem < Concurrency(Len(runningIdx))
    /\ LET i == runningIdx[next]
       IN  wpc' = [wpc EXCEPT ![i] = "fetch"]
    /\ sem' = sem + 1
    /\ wg' = wg + 1
    /\ next' = next + 1
    /\ pc' = IF next = Len(runningIdx) THEN "wait" ELSE "submit"
    /\ UNCHANGED <<listErr, mode, parentDone, tickPending, cycles, renders, exit, containers,
                   snapshots, fetchErr, result, sj, norm,
                   calls, prevFailed>>

\* Variant: the fetch runs under a context of its own and still answers after
\* the context of the batch is done.
FetchOkDetached(i, s) ==
    /\ i \in DOMAIN wpc /\ wpc[i] = "fetch"
    /\ snapshots' = [snapshots EXCEPT ![i] = WorkerBody(snapshots[i], "ok", s)]
    /\ calls' = [calls EXCEPT ![i] = @ + 1]
    /\ fetchErr' = [fetchErr EXCEPT ![i] = "nil"]
    /\ wpc' = [wpc EXCEPT ![i] = "release"]
    /\ UNCHANGED <<listErr, mode, pc, parentDone, tickPending, cycles, renders, exit, containers,
                   next, sem, wg, result, sj, norm,
                   prevFailed>>

\* populateStats of container i succeeds with sample s.
FetchOk(i, s) ==
    /\ i \in DOMAIN wpc /\ wpc[i] = "fetch" /\ ~CtxDone
    /\ snapshots' = [snapshots EXCEPT ![i] = WorkerBody(snapshots[i], "ok", s)]
    /\ calls' = [calls EXCEPT ![i] = @ + 1]
    /\ fetchErr' = [fetchErr EXCEPT ![i] = "nil"]
    /\ wpc' = [wpc EXCEPT ![i] = "release"]
    /\ UNCHANGED <<listErr, mode, pc, parentDone, tickPending, cycles, renders, exit, containers,
                   next, sem, wg, result, sj, norm,
                   prevFailed>>

\* Variant: a failed request is made a second time before the goroutine gives up.
FetchFailRetry(i, kind) ==
    /\ i \in DOMAIN wpc /\ wpc[i] = "fetch"
    /\ calls' = [calls EXCEPT ![i] = @ + 1]
    /\ IF calls[i] = 0
       THEN UNCHANGED <<snapshots, fetchErr, wpc>>
       ELSE /\ snapshots' = [snapshots EXCEPT ![i] = WorkerBody(snapshots[i], kind, NoStats)]
            /\ fetchErr' = [fetchErr EXCEPT ![i] = "err"]
            /\ wpc' = [wpc EXCEPT ![i] = "release"]
    /\ UNCHANGED <<listErr, mode, pc, parentDone, tickPending, cycles, renders, exit, containers,
                   next, sem, wg, result, sj, norm, prevFailed>>

\* populateStats of container i returns an error of the given kind.
FetchFail(i, kind) ==
    /\ i \in DOMAIN wpc /\ wpc[i] = "fetch"
    /\ snapshots' = [snapshots EXCEPT ![i] = WorkerBody(snapshots[i], kind, NoStats)]
    /\ calls' = [calls EXCEPT ![i] = @ + 1]
    /\ fetchErr' = [fetchErr EXCEPT ![i] = "err"]
    /\ wpc' = [wpc EXCEPT ![i] = "release"]
    /\ UNCHANGED <<listErr, mode, pc, parentDone, tickPending, cycles, renders, exit, containers,
                   next, sem, wg, result, sj, norm,
                   prevFailed>>

\* defer func() { <-sem }()
Release(i) ==
    /\ i \in DOMAIN wpc /\ wpc[i] = "release"
    /\ sem' = sem - 1
    /\ wpc' = [wpc EXCEPT ![i] = "signal"]
    /\ UNCHANGED <<listErr, mode, pc, parentDone, tickPending, cycles, renders, exit, containers,
                   snapshots, next, wg, fetchErr, result, sj, norm,
                   calls, prevFailed>>

\* defer wg.Done()
Done(i) ==
    /\ i \in DOMAIN wpc /\ wpc[i] = "signal"
    /\ wg' = wg - 1
    /\ wpc' = [wpc EXCEPT ![i] = "done"]
    /\ UNCHANGED <<listErr, mode, pc, parentDone, tickPending, cycles, renders, exit, containers,
                   snapshots, next, sem, fetchErr, result, sj, norm,
                   calls, prevFailed>>

\* Variant: the first failed fetch is returned as the error of the batch.
WaitAbortOnError ==
    /\ pc = "wait" /\ wg = 0
    /\ result' = IF \E i \in DOMAIN fetchErr : fetchErr[i] = "err"
                 THEN [snaps |-> << >>, err |-> TRUE, isNil |-> TRUE]
                 ELSE [snaps |-> snapshots, err |-> FALSE, isNil |-> FALSE]
    /\ pc' = "returned"
    /\ UNCHANGED <<listErr, mode, parentDone, tickPending, cycles, renders, exit, containers,
                   snapshots, next, sem, wg, wpc, fetchErr, sj, norm,
                   calls, prevFailed>>

\* Variant: the call returns when the last goroutine has been started.
WaitWithoutJoin ==
    /\ pc = "wait"
    /\ result' = [snaps |-> snapshots, err |-> FALSE, isNil |-> FALSE]
    /\ pc' = "returned"
    /\ UNCHANGED <<listErr, mode, parentDone, tickPending, cycles, renders, exit, containers,
                   snapshots, next, sem, wg, wpc, fetchErr, sj, norm,
                   calls, prevFailed>>

\* wg.Wait(); return snapshots, nil
Wait ==
    /\ pc = "wait" /\ wg = 0
    /\ result' = [snaps |-> snapshots, err |-> FALSE, isNil |-> FALSE]
    /\ pc' = "returned"
    /\ UNCHANGED <<listErr, mode, parentDone, tickPending, cycles, renders, exit, containers,
                   snapshots, next, sem, wg, wpc, fetchErr, sj, norm,
                   calls, prevFailed>>

-----------------------------------------------------------------------------
\* CollectNetworks: one ContainerList call, then grouping (no goroutines).

NetInfo(c) == [ID |-> c.ID, Name |-> deriveName(c.Names), Status |-> deriveStatus(c.State, c.Status)]

NetListFail ==
    /\ mode = "netwatch" /\ pc = "list"
    /\ result' = [snaps |-> << >>, err |-> TRUE, isNil |-> TRUE]
    /\ listErr' = "err"
    /\ pc' = "returned"
    /\ UNCHANGED <<mode, parentDone, tickPending, cycles, renders, exit, containers,
                   snapshots, next, sem, wg, wpc, fetchErr, sj, norm,
                   calls, prevFailed>>

NetListOk(cs) ==
    /\ mode = "netwatch" /\ pc = "list"
    /\ listErr' = "nil"
    /\ containers' = cs
    /\ result' = [snaps |-> [i \in 1..Len(cs) |-> NetInfo(cs[i])], err |-> FALSE, isNil |-> FALSE]
    /\ pc' = "returned"
    /\ UNCHANGED <<mode, parentDone, tickPending, cycles, renders, exit,
                   snapshots, next, sem, wg, wpc, fetchErr, sj, norm,
                   calls, prevFailed>>

-----------------------------------------------------------------------------
\* main and the watch loops. SortSnapshots, ClearScreen and Render work on the
\* slice the collector returned and write to the terminal; the slice is dropped
\* afterwards, so the model counts the tables written.

\* One-shot mode: fatal(err) on a failed collection, else sort and render.
OneShotFinish ==
    /\ mode = "oneshot" /\ pc = "returned"
    /\ IF result.err
       THEN /\ exit' = "fatal" /\ renders' = renders
       ELSE /\ exit' = "ok" /\ renders' = renders + 1
    /\ pc' = "exit"
    /\ UNCHANGED <<listErr, mode, parentDone, tickPending, cycles, containers, snapshots, next,
                   sem, wg, wpc, fetchErr, result, sj, norm,
                   calls, prevFailed>>

\* Variant: a failed collection is rendered like any other and the loop goes on.
WatchAfterCollectIgnoreErr ==
    /\ mode = "watch" /\ pc = "returned"
    /\ exit' = exit /\ renders' = renders + 1 /\ pc' = "select"
    /\ prevFailed' = (Len(fetchErr) >= 1 /\ fetchErr[1] = "err")
    /\ ClearCycle
    /\ UNCHANGED <<mode, parentDone, tickPending, cycles, sj, norm>>

\* watchContainers after CollectSnapshots returned: return err, or sort, clear
\* and render and go to the select.
WatchAfterCollect ==
    /\ mode = "watch" /\ pc = "returned"
    /\ IF result.err
       THEN /\ exit' = "fatal" /\ renders' = renders /\ pc' = "exit"
            /\ prevFailed' = prevFailed
            /\ UNCHANGED <<containers, snapshots, next, sem, wg, wpc, fetchErr, listErr, result,
                           calls>>
       ELSE /\ exit' = exit /\ renders' = renders + 1 /\ pc' = "select"
            /\ prevFailed' = (Len(fetchErr) >= 1 /\ fetchErr[1] = "err")
            /\ ClearCycle
    /\ UNCHANGED <<mode, parentDone, tickPending, cycles, sj, norm>>

\* select finds neither channel ready and the goroutine parks on both.
SelectPark ==
    /\ mode = "watch" /\ pc = "select" /\ ~tickPending /\ ~parentDone
    /\ pc' = "parked"
    /\ UNCHANGED <<listErr, mode, parentDone, tickPending, cycles, renders, exit, containers,
                   snapshots, next, sem, wg, wpc, fetchErr, result, sj, norm,
                   calls, prevFailed>>

\* select: case <-ticker.C: continue (the next CollectSnapshots call begins).
\* The tick is taken from the buffer, or was handed to the parked goroutine.
SelectTick ==
    /\ mode = "watch"
    /\ \/ pc = "select" /\ tickPending
       \/ pc = "wokeTick"
    /\ cycles < MaxCycles
    /\ tickPending' = IF pc = "select" THEN FALSE ELSE tickPending
    /\ cycles' = cycles + 1
    /\ pc' = "list"
    /\ UNCHANGED <<listErr, mode, parentDone, renders, exit, containers, snapshots, next,
                   sem, wg, wpc, fetchErr, result, sj, norm,
                   calls, prevFailed>>

\* Variant: the loop ends with the error of the context.
SelectDoneAsError ==
    /\ mode = "watch"
    /\ \/ pc = "select" /\ parentDone
       \/ pc = "wokeDone"
    /\ exit' = "fatal"
    /\ pc' = "exit"
    /\ UNCHANGED <<listErr, mode, parentDone, tickPending, cycles, renders, containers, snapshots,
                   next, sem, wg, wpc, fetchErr, result, sj, norm,
                   calls, prevFailed>>

\* select: case <-parent.Done(): return nil
SelectDone ==
    /\ mode = "watch"
    /\ \/ pc = "select" /\ parentDone
       \/ pc = "wokeDone"
    /\ exit' = "ok"
    /\ pc' = "exit"
    /\ UNCHANGED <<listErr, mode, parentDone, tickPending, cycles, renders, containers, snapshots,
                   next, sem, wg, wpc, fetchErr, result, sj, norm,
                   calls, prevFailed>>

\* watchNetworks after CollectNetworks returned (RenderNetworks always returns nil).
NetAfterCollect ==
    /\ mode = "netwatch" /\ pc = "returned"
    /\ IF result.err
       THEN /\ exit' = "fatal" /\ renders' = renders /\ pc' = "exit"
            /\ UNCHANGED <<containers, snapshots, next, sem, wg, wpc, fetchErr, listErr, result,
                           calls>>
       ELSE /\ exit' = exit /\ renders' = renders + 1 /\ pc' = "select"
            /\ ClearCycle
    /\ UNCHANGED <<mode, parentDone, tickPending, cycles, sj, norm,
                   prevFailed>>

NetSelectPark ==
    /\ mode = "netwatch" /\ pc = "select" /\ ~tickPending /\ ~parentDone
    /\ pc' = "parked"
    /\ UNCHANGED <<listErr, mode, parentDone, tickPending, cycles, renders, exit, containers,
                   snapshots, next, sem, wg, wpc, fetchErr, result, sj, norm,
                   calls, prevFailed>>

NetSelectTick ==
    /\ mode = "netwatch"
    /\ \/ pc = "select" /\ tickPending
       \/ pc = "wokeTick"
    /\ cycles < MaxCycles
    /\ tickPending' = IF pc = "select" THEN FALSE ELSE tickPending
    /\ cycles' = cycles + 1
    /\ pc' = "list"
    /\ UNCHANGED <<listErr, mode, parentDone, renders, exit, containers, snapshots, next,
                   sem, wg, wpc, fetchErr, result, sj, norm,
                   calls, prevFailed>>

NetSelectDone ==
    /\ mode = "netwatch"
    /\ \/ pc = "select" /\ parentDone
       \/ pc = "wokeDone"
    /\ exit' = "ok"
    /\ pc' = "exit"
    /\ UNCHANGED <<listErr, mode, parentDone, tickPending, cycles, renders, containers, snapshots,
                   next, sem, wg, wpc, fetchErr, result, sj, norm,
                   calls, prevFailed>>

\* The ticker fires: the tick is handed to the goroutine parked in the select,
\* which is thereby resumed in the ticker case; otherwise it is buffered unless
\* one is already waiting.
Tick ==
    /\ mode \in {"watch", "netwatch"} /\ pc # "exit" /\ ~tickPending
    /\ IF pc = "parked"
       THEN pc' = "wokeTick" /\ tickPending' = tickPending
       ELSE pc' = pc /\ tickPending' = TRUE
    /\ UNCHANGED <<listErr, mode, parentDone, cycles, renders, exit, containers, snapshots,
                   next, sem, wg, wpc, fetchErr, result, sj, norm,
                   calls, prevFailed>>

\* SIGINT or SIGTERM arrives: the context of signal.NotifyContext is done, and
\* a goroutine parked in the select is resumed in the Done case.
Signal ==
    /\ mode \in {"watch", "netwatch"} /\ pc # "exit" /\ ~parentDone
    /\ parentDone' = TRUE
    /\ pc' = IF pc = "parked" THEN "wokeDone" ELSE pc
    /\ UNCHANGED <<listErr, mode, tickPending, cycles, renders, exit, containers, snapshots,
                   next, sem, wg, wpc, fetchErr, result, sj, norm,
                   calls, prevFailed>>

\* The 15 s of context.WithTimeout pass in one-shot mode.
Timeout ==
    /\ mode = "oneshot" /\ pc # "exit" /\ ~parentDone
    /\ parentDone' = TRUE
    /\ UNCHANGED <<listErr, mode, pc, tickPending, cycles, renders, exit, containers, snapshots,
                   next, sem, wg, wpc, fetchErr, result, sj, norm,
                   calls, prevFailed>>

-----------------------------------------------------------------------------
\* The program.

Init ==
    /\ mode \in {"oneshot", "watch", "netwatch"}
    /\ pc = "list"
    /\ parentDone = FALSE /\ tickPending = FALSE
    /\ cycles = 1 /\ renders = 0 /\ exit = "running"
    /\ CycleCleared /\ prevFailed = FALSE
    /\ sj = NoStats /\ norm = NoNorm

Workers == 1..MaxContainers

Next ==
    \/ ListFail
    \/ \E cs \in Lists : ListOk(cs)
    \/ Submit
    \/ \E i \in Workers, s \in Samples : FetchOk(i, s)
    \/ \E i \in Workers, kind \in FailureKinds : FetchFail(i, kind)
    \/ \E i \in Workers : Release(i)
    \/ \E i \in Workers : Done(i)
    \/ Wait
    \/ NetListFail
    \/ \E cs \in Lists : NetListOk(cs)
    \/ OneShotFinish
    \/ WatchAfterCollect
    \/ SelectPark
    \/ SelectTick
    \/ SelectDone
    \/ NetAfterCollect
    \/ NetSelectPark
    \/ NetSelectTick
    \/ NetSelectDone
    \/ Tick
    \/ Signal
    \/ Timeout

Spec == Init /\ [][Next]_vars

-----------------------------------------------------------------------------
\* The admission gate under a wide list. With MaxConcurrency + GateExtra
\* running containers the goroutines are followed from the return of
\* populateStats to wg.Done() in one step, and the stats source is an
\* instrumented one: every third container runs into its deadline, and a
\* fetch overtakes at most GateWindow earlier ones.

AllRunning(n) == [i \in 1..n |-> ContainerAt(i, UpContainer)]

GateLists == { AllRunning(n) : n \in {2, MaxConcurrency + GateExtra} }

GateOutcome(i) == IF CtxDone \/ i % 3 = 0 THEN "deadline" ELSE "ok"

\* Variant: the goroutine ends without taking its token back out of sem.
WorkerRunKeepsToken(i) ==
    /\ i \in DOMAIN wpc /\ wpc[i] = "fetch"
    /\ \A j \in DOMAIN wpc : j + GateWindow < i => wpc[j] = "done"
    /\ snapshots' = [snapshots EXCEPT ![i] = WorkerBody(snapshots[i], GateOutcome(i), BusyStats)]
    /\ calls' = [calls EXCEPT ![i] = @ + 1]
    /\ fetchErr' = [fetchErr EXCEPT ![i] = IF GateOutcome(i) = "ok" THEN "nil" ELSE "err"]
    /\ sem' = sem
    /\ wg' = wg - 1
    /\ wpc' = [wpc EXCEPT ![i] = "done"]
    /\ UNCHANGED <<listErr, mode, pc, parentDone, tickPending, cycles, renders, exit, containers,
                   next, result, sj, norm, prevFailed>>

\* The goroutine of container i from the return of populateStats to its end:
\* the slot is written, then <-sem, then wg.Done().
WorkerRun(i) ==
    /\ i \in DOMAIN wpc /\ wpc[i] = "fetch"
    /\ \A j \in DOMAIN wpc : j + GateWindow < i => wpc[j] = "done"
    /\ snapshots' = [snapshots EXCEPT ![i] = WorkerBody(snapshots[i], GateOutcome(i), BusyStats)]
    /\ calls' = [calls EXCEPT ![i] = @ + 1]
    /\ fetchErr' = [fetchErr EXCEPT ![i] = IF GateOutcome(i) = "ok" THEN "nil" ELSE "err"]
    /\ sem' = sem - 1
    /\ wg' = wg - 1
    /\ wpc' = [wpc EXCEPT ![i] = "done"]
    /\ UNCHANGED <<listErr, mode, pc, parentDone, tickPending, cycles, renders, exit, containers,
                   next, result, sj, norm,
                   prevFailed>>

InitGate ==
    /\ mode = "oneshot"
    /\ pc = "list"
    /\ parentDone = FALSE /\ tickPending = FALSE
    /\ cycles = 1 /\ renders = 0 /\ exit = "running"
    /\ CycleCleared /\ prevFailed = FALSE
    /\ sj = NoStats /\ norm = NoNorm

NextGate ==
    \/ ListFail
    \/ \E cs \in GateLists : ListOk(cs)
    \/ Submit
    \/ \E i \in 1..(MaxConcurrency + GateExtra) : WorkerRun(i)
    \/ Wait
    \/ OneShotFinish

SpecGate == InitGate /\ [][NextGate]_vars

\* The same under the scheduling the Go runtime and the daemon's deadlines give:
\* the lister returns, a runnable collecting thread proceeds, and every fetch
\* that was started ends. Here a fetch overtakes at most FairWindow earlier ones.
WorkerRunInWindow(i) ==
    /\ \A j \in DOMAIN wpc : j + FairWindow < i => wpc[j] = "done"
    /\ WorkerRun(i)

NextGateFair ==
    \/ ListFail
    \/ \E cs \in GateLists : ListOk(cs)
    \/ Submit
    \/ \E i \in 1..(MaxConcurrency + GateExtra) : WorkerRunInWindow(i)
    \/ Wait
    \/ OneShotFinish

SpecGateFair ==
    /\ InitGate /\ [][NextGateFair]_vars
    /\ WF_vars(ListFail \/ \E cs \in GateLists : ListOk(cs))
    /\ WF_vars(Submit)
    /\ WF_vars(\E i \in 1..(MaxConcurrency + GateExtra) : WorkerRunInWindow(i))
    /\ WF_vars(Wait)

-----------------------------------------------------------------------------
\* The normalisers on their own: a decoded container.Stats is drawn, and the
\* success path of populateStats writes a fresh snapshot from it.

CounterVals == (0..MaxCounter) \cup {Wrap - 1}

Normalize ==
    /\ mode = "normalize" /\ norm = NoNorm
    /\ norm' = populateStats(NewSnapshot(ContainerAt(1, UpContainer)), "ok", sj)
    /\ UNCHANGED <<listErr, mode, pc, parentDone, tickPending, cycles, renders, exit, containers,
                   snapshots, next, sem, wg, wpc, fetchErr, result, sj,
                   calls, prevFailed>>

InitNorm ==
    /\ mode = "normalize"
    /\ pc = "exit"
    /\ parentDone = FALSE /\ tickPending = FALSE
    /\ cycles = 0 /\ renders = 0 /\ exit = "running"
    /\ CycleCleared /\ prevFailed = FALSE
    /\ norm = NoNorm

CPUInputs ==
    { [ZeroStats EXCEPT !.CPUTotal = a, !.PreCPUTotal = b, !.SystemUsage = c,
                        !.PreSystemUsage = d, !.OnlineCPUs = n, !.PercpuLen = l]
      : a \in CounterVals, b \in CounterVals, c \in CounterVals, d \in CounterVals,
        n \in 0..MaxCounter, l \in 0..MaxCounter }
    \cup {BusyStats}

MemVals == CounterVals \cup {100, 2048}

MemInputs ==
    { [ZeroStats EXCEPT !.MemUsage = u, !.MemLimit = l, !.PidsCurrent = p]
      : u \in MemVals, l \in MemVals, p \in 0..MaxCounter }

\* Operation labels of blkio entries, in the spellings daemons use and others.
BlkOps ==
    { <<"R", "e", "a", "d">>, <<"R", "E", "A", "D">>, <<"w", "r", "i", "t", "e">>,
      <<"W", "r", "i", "t", "e">>, <<"A", "s", "y", "n", "c">> }

BlkValues == {99, 1024, 2048}

BlkEntries == { [Op |-> o, Value |-> v] : o \in BlkOps, v \in BlkValues }

BlkInputs ==
    { [ZeroStats EXCEPT !.Blkio = es]
      : es \in UNION { [1..n -> BlkEntries] : n \in 0..MaxEntries } }

InitBlk == InitNorm /\ sj \in BlkInputs

InitCPU == InitNorm /\ sj \in CPUInputs
InitMem == InitNorm /\ sj \in MemInputs

NextNorm == Normalize

SpecCPU == InitCPU /\ [][NextNorm]_vars
SpecMem == InitMem /\ [][NextNorm]_vars
SpecBlk == InitBlk /\ [][NextNorm]_vars

-----------------------------------------------------------------------------
\* Properties.

\* CollectSnapshots has returned a result (not the lister's error) to its caller.
Returned == mode \in {"oneshot", "watch"} /\ pc = "returned" /\ ~result.err

IsRunning(i) == containers[i].State = "running"

\* C1: for every list the lister returns, every mix of states, every outcome of
\* the fetches and every order in which the goroutines finish, CollectSnapshots
\* returns one snapshot per listed container, and snapshot i carries the ID and
\* the name of the lister's i-th container.
C1_OrderPreserved ==
    Returned =>
        /\ Len(result.snaps) = Len(containers)
        /\ \A i \in 1..Len(containers) :
              /\ result.snaps[i].ID = containers[i].ID
              /\ result.snaps[i].Name = deriveName(containers[i].Names)

\* A full list came back in which the third container failed and the first succeeded.
C1_Witness ==
    /\ Returned /\ Len(containers) = MaxContainers
    /\ IsRunning(1) /\ ~IsRunning(2) /\ IsRunning(MaxContainers)
    /\ fetchErr[1] = "nil" /\ fetchErr[MaxContainers] = "err"

\* C2: a running container whose fetch failed is returned with status ERROR and
\* all numeric fields zero; no slot ever shows ERROR together with metrics.
C2_FailedFetchIsBlankError ==
    /\ \A i \in DOMAIN snapshots :
          snapshots[i].Status = "ERROR" => MetricsZero(snapshots[i])
    /\ Returned =>
          \A i \in 1..Len(containers) :
              fetchErr[i] = "err" =>
                  /\ result.snaps[i].Status = "ERROR"
                  /\ MetricsZero(result.snaps[i])

C2_Witness ==
    /\ Returned
    /\ \E i \in 1..Len(containers) :
          /\ fetchErr[i] = "err"
          /\ containers[i].Status = "Up 5 minutes"
          /\ result.snaps[i].Status = "ERROR"

\* C3: a failed fetch touches its own snapshot only: the batch still returns
\* without error, and every running container whose own fetch succeeded has the
\* metrics normalised from a sample of the stats source and the status derived
\* from the lister.
C3_FailureIsolated ==
    (mode \in {"oneshot", "watch"} /\ pc = "returned"
        /\ \E j \in DOMAIN fetchErr : fetchErr[j] = "err")
    => /\ ~result.err
       /\ Len(result.snaps) = Len(containers)
       /\ \A i \in 1..Len(containers) :
              (IsRunning(i) /\ fetchErr[i] = "nil") =>
                  \E s \in Samples :
                      result.snaps[i] = WriteMetrics(NewSnapshot(containers[i]), s)

\* Three running containers: two answered (CPU 40 %), the third failed.
C3_Witness ==
    /\ Returned /\ Len(containers) = 3
    /\ \A i \in 1..3 : IsRunning(i)
    /\ fetchErr = <<"nil", "nil", "err">>
    /\ result.snaps[1].CPUPercent = <<40, 1>> /\ result.snaps[2].CPUPercent = <<40, 1>>
    /\ result.snaps[3].Status = "ERROR" /\ MetricsZero(result.snaps[3])

\* C4: CollectSnapshots returns an error exactly when the lister failed, and
\* then it returns no snapshots and has started no fetch; failed fetches, even
\* all of them, leave the return value without error.
C4_ErrorOnlyFromLister ==
    (mode \in {"oneshot", "watch"} /\ pc = "returned") =>
        /\ result.err <=> listErr = "err"
        /\ result.err =>
              /\ result.isNil /\ result.snaps = << >>
              /\ wpc = << >> /\ sem = 0 /\ wg = 0

\* Every running container of a full list failed, and the call returned a result.
C4_Witness ==
    /\ Returned /\ Len(containers) = MaxContainers
    /\ \A i \in 1..Len(containers) : IsRunning(i) /\ fetchErr[i] = "err"

\* C5: at most min(16, N) stats fetches are in flight at any moment of a cycle
\* with N running containers.
C5_ConcurrencyCeiling ==
    InFlight <= Min(16, Len(runningIdx))

\* The gate is full and a container is still waiting for admission.
C5_Witness ==
    /\ InFlight = 16 /\ Len(runningIdx) > 16 /\ pc = "submit"

\* C6: a container the lister reports as not running is never submitted to the
\* stats fetcher; its slot keeps zero metrics and the status derived from the
\* lister, during the cycle and in the returned result.
C6_NonRunningUntouched ==
    mode \in {"oneshot", "watch"} =>
        \A i \in 1..Len(containers) :
            ~IsRunning(i) =>
                /\ wpc[i] = "idle" /\ fetchErr[i] = "pending"
                /\ MetricsZero(snapshots[i])
                /\ snapshots[i].Status = deriveStatus(containers[i].State, containers[i].Status)
                /\ snapshots[i].Status # "ERROR"
                /\ Returned => result.snaps[i] = snapshots[i]

\* An exited and a paused container came back beside a running one that failed.
C6_Witness ==
    /\ Returned /\ Len(containers) = 3
    /\ containers[1].State = "exited" /\ containers[2].State = "running"
    /\ containers[3].State = "paused"
    /\ fetchErr[2] = "err"
    /\ result.snaps[1].Status = "Exited (0) 2 hours ago"
    /\ result.snaps[3].Status = "paused"

\* C7: when current - previous of the container counter or of the host counter
\* is not positive (a counter that went backwards included), computeCPUPercent
\* returns 0; the result is never negative.
C7_NonPositiveDeltaGivesZero ==
    (mode = "normalize" /\ norm # NoNorm) =>
        /\ (sj.CPUTotal - sj.PreCPUTotal <= 0 \/ sj.SystemUsage - sj.PreSystemUsage <= 0)
              => norm.CPUPercent = Zero
        /\ norm.CPUPercent[1] >= 0 /\ norm.CPUPercent[2] > 0

\* C8: computeMemory returns usage and limit unchanged; the percentage is 0 when
\* the limit or the usage is 0, and usage / limit * 100 otherwise.
C8_MemoryPercent ==
    (mode = "normalize" /\ norm # NoNorm) =>
        /\ norm.MemUsage = sj.MemUsage /\ norm.MemLimit = sj.MemLimit
        /\ (sj.MemLimit = 0 \/ sj.MemUsage = 0) => norm.MemPercent = Zero
        /\ (sj.MemLimit # 0 /\ sj.MemUsage # 0) =>
              /\ norm.MemPercent[2] > 0
              /\ norm.MemPercent[1] * sj.MemLimit = sj.MemUsage * 100 * norm.MemPercent[2]

\* Usage without a limit has been normalised.
C8_Witness ==
    /\ mode = "normalize" /\ norm # NoNorm
    /\ sj.MemLimit = 0 /\ sj.MemUsage = 100 /\ norm.MemPercent = Zero

\* C9: once the cancellation signal has been raised, a watch loop initiates no
\* further collection cycle.
C9_NoCycleAfterCancel ==
    [][(mode \in {"watch", "netwatch"} /\ parentDone) => cycles' = cycles]_vars

\* C10: when a cycle of the watch loop fails, the loop ends with that error at
\* once: nothing is rendered, no tick is consumed, no further cycle begins.
C10_FailedCycleEndsLoop ==
    [][(mode \in {"watch", "netwatch"} /\ pc = "returned" /\ result.err) =>
          /\ pc' \in {"returned", "exit"}
          /\ renders' = renders /\ cycles' = cycles
          /\ pc' = "exit" => (exit' = "fatal" /\ tickPending' = tickPending)]_vars

\* The second cycle failed after the first was rendered.
C10_Witness ==
    /\ mode = "watch" /\ pc = "exit" /\ exit = "fatal"
    /\ cycles = 2 /\ renders = 1

\* Two labels are equal up to the case of their letters.
EqualFold(a, b) ==
    /\ Len(a) = Len(b)
    /\ \A k \in 1..Len(a) : LowerChar(a[k]) = LowerChar(b[k])

\* Sum of f over the index set S, as a natural number.
RECURSIVE SumOver(_, _)
SumOver(S, f) ==
    IF S = {} THEN 0
    ELSE LET k == CHOOSE x \in S : TRUE IN f[k] + SumOver(S \ {k}, f)

\* The entries es in the order given by the permutation p.
Reordered(es, p) == [k \in 1..Len(es) |-> es[p[k]]]

\* C11: computeBlockIO returns as read the sum (in uint64 arithmetic) of the
\* values whose label is "read" up to case and as write the sum of those whose
\* label is "write" up to case; other labels count for neither, and every
\* reordering of the entries gives the same two sums.
C11_BlockIOSums ==
    (mode = "normalize" /\ norm # NoNorm) =>
        LET es     == sj.Blkio
            vals   == [k \in 1..Len(es) |-> es[k].Value]
            reads  == {k \in 1..Len(es) : EqualFold(es[k].Op, Op_read)}
            writes == {k \in 1..Len(es) : EqualFold(es[k].Op, Op_write)}
        IN  /\ norm.BlockRead = SumOver(reads, vals) % Wrap
            /\ norm.BlockWrite = SumOver(writes, vals) % Wrap
            /\ \A p \in Permutations(1..Len(es)) :
                  computeBlockIO([sj EXCEPT !.Blkio = Reordered(es, p)])
                      = [read |-> norm.BlockRead, write |-> norm.BlockWrite]

\* The entries Read 1024, write 2048, Async 99 have been summed.
C11_Witness ==
    /\ mode = "normalize" /\ norm # NoNorm
    /\ sj.Blkio = << [Op |-> <<"R", "e", "a", "d">>, Value |-> 1024],
                     [Op |-> <<"w", "r", "i", "t", "e">>, Value |-> 2048],
                     [Op |-> <<"A", "s", "y", "n", "c">>, Value |-> 99] >>
    /\ norm.BlockRead = 1024 /\ norm.BlockWrite = 2048

\* C12: once the context given to CollectSnapshots is done after the listing, a
\* fetch that had succeeded keeps its slot unchanged, a fetch that had not
\* finished (in flight or not yet admitted) can only end as a failure with status
\* ERROR and zero metrics, and the call returns all snapshots without an error
\* after every running container has an outcome.
C12_CancelMidBatch ==
    [][(mode = "oneshot" /\ parentDone /\ listErr = "nil") =>
          /\ \A i \in 1..Len(containers) :
                fetchErr[i] = "nil" =>
                    /\ fetchErr'[i] = "nil"
                    /\ snapshots'[i] = snapshots[i]
                    /\ snapshots[i].Status = deriveStatus(containers[i].State, containers[i].Status)
          /\ \A i \in 1..Len(containers) :
                (IsRunning(i) /\ fetchErr[i] = "pending") =>
                    /\ fetchErr'[i] \in {"pending", "err"}
                    /\ fetchErr'[i] = "err" =>
                          (snapshots'[i].Status = "ERROR" /\ MetricsZero(snapshots'[i]))
          /\ (pc = "wait" /\ pc' = "returned") =>
                /\ ~result'.err
                /\ result'.snaps = snapshots
                /\ Len(result'.snaps) = Len(containers)
                /\ \A i \in 1..Len(containers) :
                      IsRunning(i) =>
                          \/ /\ fetchErr[i] = "nil"
                             /\ \E s \in Samples :
                                   result'.snaps[i] = WriteMetrics(NewSnapshot(containers[i]), s)
                          \/ /\ fetchErr[i] = "err"
                             /\ result'.snaps[i].Status = "ERROR"
                             /\ MetricsZero(result'.snaps[i])]_vars

\* The deadline of the one-shot context passed mid-batch: the first container
\* had answered, the other two are returned as failures.
C12_Witness ==
    /\ mode = "oneshot" /\ parentDone /\ Returned
    /\ Len(containers) = 3 /\ \A i \in 1..3 : IsRunning(i)
    /\ fetchErr = <<"nil", "err", "err">>
    /\ result.snaps[1].CPUPercent = <<40, 1>> /\ result.snaps[1].Status = "Up 5 minutes"
    /\ result.snaps[2].Status = "ERROR" /\ MetricsZero(result.snaps[3])

\* C13: in watch mode, once the signal has been raised while a cycle is
\* collecting, no fetch of that cycle that is still in flight ends with an answer.
C13_SignalReachesBatch ==
    [][(mode = "watch" /\ parentDone) =>
          \A i \in DOMAIN wpc :
              (wpc[i] = "fetch" /\ i \in DOMAIN fetchErr') => fetchErr'[i] # "nil"]_vars

\* What a step of a watch loop may do around a signal.
GracefulStep ==
    mode \in {"watch", "netwatch"} =>
        /\ (pc = "parked" /\ ~parentDone /\ parentDone') => pc' = "wokeDone"
        /\ pc = "wokeDone" =>
              /\ pc' \in {"wokeDone", "exit"}
              /\ cycles' = cycles /\ renders' = renders
              /\ pc' = "exit" => exit' = "ok"
        /\ (exit # "fatal" /\ exit' = "fatal") => (pc = "returned" /\ result.err)

\* C14: a watch loop parked in its select after a rendered cycle is resumed in
\* the Done case by a signal that comes before the next tick; from there it can
\* return at once, whether or not a tick follows, its only step is to return nil
\* without another cycle or table, and a loop ends as a failure only when a
\* collection failed.
C14_CancelWhileIdle ==
    [][GracefulStep]_vars /\ [](pc = "wokeDone" => ENABLED (SelectDone \/ NetSelectDone))

\* The loop was parked after its first table when the signal came; no tick is waiting.
C14_Witness ==
    /\ mode = "watch" /\ pc = "wokeDone" /\ parentDone /\ ~tickPending
    /\ cycles = 1 /\ renders = 1 /\ exit = "running"

\* The caller of CollectSnapshots holds a result: from the return on, and in
\* one-shot mode until the program ends.
ResultHeld ==
    \/ Returned
    \/ mode = "oneshot" /\ pc = "exit" /\ exit = "ok"

\* C15: when CollectSnapshots has returned, every goroutine it started has run to
\* its end: none is fetching, writing or about to signal, every running container
\* has its outcome, the gate and the wait group are empty, and the slots equal
\* the returned snapshots for as long as the caller holds them.
C15_JoinBeforeReturn ==
    ResultHeld =>
        /\ \A i \in 1..Len(containers) :
              /\ wpc[i] = IF IsRunning(i) THEN "done" ELSE "idle"
              /\ IsRunning(i) => fetchErr[i] \in {"nil", "err"}
        /\ InFlight = 0 /\ wg = 0 /\ sem = 0
        /\ result.snaps = snapshots

\* Three goroutines were started, the first failed, and all three have ended
\* before the result came back.
C15_Witness ==
    /\ Returned /\ Len(containers) = 3
    /\ wpc = <<"done", "done", "done">>
    /\ fetchErr = <<"err", "nil", "nil">>
    /\ result.snaps[1].Status = "ERROR" /\ result.snaps[3].PIDs = 12

\* The slots a step writes.
Written == {j \in 1..Len(snapshots) : snapshots'[j] # snapshots[j]}

\* What a step may do to the slots while the goroutines of a cycle run.
OwnSlotStep ==
    (mode \in {"oneshot", "watch"} /\ pc \in {"submit", "wait"}) =>
        /\ next' # next =>
              /\ \A a \in 1..Len(runningIdx), b \in 1..Len(runningIdx) :
                    a # b => runningIdx[a] # runningIdx[b]
              /\ \A j \in 1..Len(wpc) :
                    wpc'[j] # wpc[j] =>
                        (wpc[j] = "idle" /\ wpc'[j] = "fetch" /\ IsRunning(j))
              /\ snapshots' = snapshots
        /\ (pc' # pc \/ wpc' = wpc) => snapshots' = snapshots
        /\ (next' = next /\ wpc' # wpc) =>
              /\ \A j \in 1..Len(wpc) : wpc'[j] = "fetch" => wpc[j] = "fetch"
              /\ snapshots' # snapshots =>
                    /\ Len(snapshots') = Len(snapshots)
                    /\ Cardinality(Written) = 1
                    /\ \A j \in Written :
                          /\ wpc[j] = "fetch" /\ wpc'[j] = "release"
                          /\ \A k \in 1..Len(wpc) : k # j => wpc'[k] = wpc[k]
                          /\ pc' = pc
                          /\ \/ snapshots'[j] = [snapshots[j] EXCEPT !.Status = "ERROR"]
                             \/ \E s \in Samples : snapshots'[j] = WriteMetrics(snapshots[j], s)

\* C16: while the goroutines of a cycle run, a slot is written only by the
\* goroutine started for its index, in its own step and from its own slot and
\* its own answer alone; the indices submitted are pairwise distinct and a slot
\* gets a goroutine at most once; the collecting thread writes no slot; so no
\* step writes two slots and no slot has two writers.
C16_OwnSlotOnly ==
    [][OwnSlotStep]_vars

\* Two fetches are in flight while the first goroutine has written its slot.
C16_Witness ==
    /\ mode = "oneshot" /\ pc = "wait" /\ Len(containers) = 3
    /\ wpc = <<"release", "fetch", "fetch">>
    /\ snapshots[1].PIDs = 12
    /\ MetricsZero(snapshots[2]) /\ MetricsZero(snapshots[3])

\* C17: in every cycle the stats source is asked at most once per container and
\* never for one that is not running; a failed fetch leaves its goroutine past
\* the call; when the call returns, every running container has been asked
\* exactly once and its snapshot is the lister's entry with this cycle's answer
\* or with ERROR; and every cycle, the first or a later one, starts with nothing
\* kept from the cycle before.
C17_OneCallPerCycle ==
    mode \in {"oneshot", "watch"} =>
        /\ \A i \in 1..Len(calls) :
              /\ calls[i] <= 1
              /\ ~IsRunning(i) => calls[i] = 0
              /\ fetchErr[i] = "err" => (calls[i] = 1 /\ wpc[i] # "fetch")
        /\ pc = "list" => CycleCleared
        /\ Returned =>
              \A i \in 1..Len(containers) :
                  /\ calls[i] = IF IsRunning(i) THEN 1 ELSE 0
                  /\ (IsRunning(i) /\ fetchErr[i] = "nil") =>
                        \E s \in Samples :
                            result.snaps[i] = WriteMetrics(NewSnapshot(containers[i]), s)
                  /\ (IsRunning(i) /\ fetchErr[i] = "err") =>
                        result.snaps[i] = [NewSnapshot(containers[i]) EXCEPT !.Status = "ERROR"]

\* The first container failed in the first cycle of a watch loop and was asked
\* once more, with an answer, in the second.
C17_Witness ==
    /\ mode = "watch" /\ cycles = 2 /\ prevFailed /\ Returned
    /\ Len(containers) >= 1
    /\ IsRunning(1) /\ calls[1] = 1 /\ fetchErr[1] = "nil"
    /\ result.snaps[1].Status = "Up 5 minutes" /\ result.snaps[1].CPUPercent = <<40, 1>>

\* C18: when the container counter and the host counter both advanced,
\* computeCPUPercent returns cpuDelta / systemDelta * n * 100, where n is
\* OnlineCPUs if that is positive, else the length of the per-core list if that
\* is not empty, else 1.
C18_CPUPercentFormula ==
    (mode = "normalize" /\ norm # NoNorm) =>
        LET cpuDelta    == sj.CPUTotal - sj.PreCPUTotal
            systemDelta == sj.SystemUsage - sj.PreSystemUsage
            n           == IF sj.OnlineCPUs > 0 THEN sj.OnlineCPUs
                           ELSE IF sj.PercpuLen > 0 THEN sj.PercpuLen
                           ELSE 1
        IN  (cpuDelta > 0 /\ systemDelta > 0) =>
                norm.CPUPercent = Frac(cpuDelta * n * 100, systemDelta)

\* cpuDelta 50, systemDelta 500, four online CPUs beside a per-core list of two: 40 %.
C18_Witness ==
    /\ mode = "normalize" /\ norm # NoNorm
    /\ sj.CPUTotal - sj.PreCPUTotal = 50 /\ sj.SystemUsage - sj.PreSystemUsage = 500
    /\ sj.OnlineCPUs = 4 /\ sj.PercpuLen = 2
    /\ norm.CPUPercent = <<40, 1>>

\* C19: a cycle whose list has running containers, sixteen or more included,
\* always comes to its end: every container is admitted, every goroutine ends
\* and has returned its token, and CollectSnapshots returns its snapshots.
C19_CycleTerminates ==
    (pc = "submit") ~>
        (/\ pc = "returned" /\ ~result.err
         /\ \A i \in 1..Len(wpc) : wpc[i] = "done"
         /\ sem = 0 /\ wg = 0)

\* A cycle over more running containers than the gate has tokens has returned,
\* with the deadline failures among them.
C19_Witness ==
    /\ Returned /\ Len(runningIdx) = MaxConcurrency + GateExtra
    /\ sem = 0 /\ wg = 0
    /\ fetchErr[3] = "err" /\ fetchErr[MaxConcurrency + GateExtra] = "nil"

====
